---- MODULE Spec2Model ----
(***************************************************************************)
(* Model of the workflow scheduler and execution engine of the image flow  *)
(* editor: getExecutionOrder and executeWorkflow (src/App.tsx) and          *)
(* attemptGenerate and editImage (services/geminiService,                   *)
(* src/unnamed/part_000).                                                   *)
(*                                                                         *)
(* executeWorkflow is an async function: the code between two awaits runs  *)
(* without interleaving (one JavaScript thread), so every action below is   *)
(* one such segment, from the event that resumes the function to the next   *)
(* await or to the function's end.  The awaits are the backend request      *)
(* (pc = "request"), the retry backoff sleep (pc = "backoff") and the       *)
(* pause between two backends (pc = "pause").                               *)
(***************************************************************************)
EXTENDS Integers, Sequences, FiniteSets, TLC

\* ------------------------------------------------------------------ bounds
MaxNodes == 3
MaxConns == 3
MaxImages == 2
MaxRunNodes == 2
MaxRuns == 1
MaxSessionImages == 1
MaxEditorNodes == 2
MaxEditorConns == 1

\* ------------------------------------------------------- program constants
SIMULATED_COST_PER_OP == 25
SIMULATED_CREDITS_PER_OP == 1
MAX_RETRIES == 3
INITIAL_DELAY_MS == 1000
MAX_DELAY_MS == 30000
PAUSE_MS == 250
MODEL_PREFERENCES ==
  << "gemini-2.0-flash-preview-image-generation",
     "gemini-2.5-flash-image-preview",
     "gemini-2.1-image-preview",
     "gemini-1.5-preview-image" >>

\* null, for each kind of value that can be null
NULL == 0
NoMessage == << >>
NoKey == << >>
\* the key a user saves in the settings dialog
SavedKey == << "key" >>
NoError == [kind |-> "none", step |-> 0, image |-> 0, message |-> << >>]
NoRetryInfo == [model |-> 0, attempt |-> 0, backoffMs |-> 0]

VARIABLES
  nodes,                \* useState nodes: the step list, in insertion order (ids)
  connections,          \* useState connections: edges in creation order
  images,               \* useState images
  ai,                   \* geminiService `ai`: TRUE when the client exists
  apiKey,               \* useState apiKey: the key the application shows
  outputs,              \* useState outputs
  logs,                 \* useState logs
  isLoading,            \* useState isLoading
  loadingMessage,       \* useState loadingMessage
  error,                \* useState error
  notification,         \* useState notification
  abortController,      \* useState abortController
  retryInfo,            \* useState retryInfo
  pc,                   \* where the active executeWorkflow call is suspended
  outcome,              \* how the last executeWorkflow call ended
  workflow,             \* executeWorkflow: const workflow
  runImages,            \* executeWorkflow: the images captured by the closure
  imageIndex,           \* executeWorkflow: imageIndex (1-based)
  stepIndex,            \* executeWorkflow: stepIndex (1-based)
  currentImageDataUrl,  \* executeWorkflow: let currentImageDataUrl
  aborted,              \* controller.signal.aborted of the run's controller
  modelIndex,           \* editImage: position in MODEL_PREFERENCES
  attempt,              \* attemptGenerate: let attempt
  modelFailures,        \* editImage: keys of modelFailures
  calls,                \* history: the editImage calls of the run
  requests,             \* history: generateContent requests of the current editImage call
  retries,              \* history: onRetry calls of the current attemptGenerate call
  sleeps,               \* history: backoff sleeps started in the current attemptGenerate call
  lastCall,             \* history: how the last editImage call ended
  lastResponse,         \* history: the last answer of the backend in this run
  logBase,              \* history: Len(logs) when the run entered Running
  runs,                 \* history: number of runs that entered Running
  sleepMs,              \* the delay of the pending sleep(ms) timer, 0 when none
  reading,              \* FileUploader: the files whose FileReaders have not all finished
  connecting,           \* FlowEditor useState connecting: its fromNodeId, or NULL
  nodeToDelete,         \* FlowEditor useState nodeToDelete
  selectedNodeId,       \* FlowEditor useState selectedNodeId
  overlap               \* history: executeWorkflow was called while a call was suspended

vars == << nodes, connections, images, ai, apiKey, outputs, logs, isLoading,
           loadingMessage, error, notification, abortController, retryInfo,
           pc, outcome, workflow, runImages, imageIndex, stepIndex,
           currentImageDataUrl, aborted, modelIndex, attempt, modelFailures,
           calls, requests, retries, sleeps, lastCall, lastResponse, logBase,
           runs,
           sleepMs, reading, connecting, nodeToDelete, selectedNodeId, overlap >>

\* ------------------------------------------------------------ small helpers
Min(a, b) == IF a <= b THEN a ELSE b

Range(s) == { s[i] : i \in 1..Len(s) }

RECURSIVE Pow2(_)
Pow2(n) == IF n <= 0 THEN 1 ELSE 2 * Pow2(n - 1)

RECURSIVE SeqsUpTo(_, _)
SeqsUpTo(S, n) ==
  IF n = 0 THEN { <<>> }
  ELSE LET shorter == SeqsUpTo(S, n - 1)
       IN  shorter \cup { Append(s, x) : s \in { t \in shorter : Len(t) = n - 1 }, x \in S }

\* ------------------------------------------------- getExecutionOrder (Kahn)
\* `x || 1` of JavaScript on a number: 0 (and undefined) give 1.
OrOne(x) == IF x = 0 THEN 1 ELSE x

\* Mutant of Adj: the targets in reverse creation order.
Adj_Reversed(ns, cs, u) ==
  IF u \in Range(ns)
  THEN LET F[i \in 0..Len(cs)] ==
             IF i = 0 THEN <<>>
             ELSE IF cs[i].fromNodeId = u THEN << cs[i].toNodeId >> \o F[i - 1]
                  ELSE F[i - 1]
       IN  F[Len(cs)]
  ELSE <<>>

\* adj.get(u) || []: the targets of the connections leaving u, in creation
\* order; only steps of the list have an adjacency entry.
Adj(ns, cs, u) ==
  IF u \in Range(ns)
  THEN LET F[i \in 0..Len(cs)] ==
             IF i = 0 THEN <<>>
             ELSE IF cs[i].fromNodeId = u THEN Append(F[i - 1], cs[i].toNodeId)
                  ELSE F[i - 1]
       IN  F[Len(cs)]
  ELSE <<>>

\* inDegree after the connections.forEach loop: every connection counts for
\* its target, whether or not its source is a step of the list.
InDegree(cs, v) == Cardinality({ i \in 1..Len(cs) : cs[i].toNodeId = v })

\* Mutant of Relax: enqueues a target one decrement too early.
RECURSIVE Relax_EarlyEnqueue(_, _, _)
Relax_EarlyEnqueue(targets, queue, inDegree) ==
  IF targets = <<>> THEN [queue |-> queue, inDegree |-> inDegree]
  ELSE LET v == Head(targets)
           d == OrOne(inDegree[v]) - 1
           inDegree2 == [inDegree EXCEPT ![v] = d]
       IN  Relax_EarlyEnqueue(Tail(targets),
                              IF d <= 1 THEN Append(queue, v) ELSE queue,
                              inDegree2)

\* the for loop over adj.get(u): decrement, and enqueue on reaching zero.
RECURSIVE Relax(_, _, _)
Relax(targets, queue, inDegree) ==
  IF targets = <<>> THEN [queue |-> queue, inDegree |-> inDegree]
  ELSE LET v == Head(targets)
           d == OrOne(inDegree[v]) - 1
           inDegree2 == [inDegree EXCEPT ![v] = d]
       IN  Relax(Tail(targets),
                 IF d = 0 THEN Append(queue, v) ELSE queue,
                 inDegree2)

\* the while (queue.length > 0) loop.
RECURSIVE KahnLoop(_, _, _, _, _)
KahnLoop(ns, cs, queue, inDegree, sortedOrder) ==
  IF queue = <<>> THEN sortedOrder
  ELSE LET u == Head(queue)
           sorted2 == IF u \in Range(ns) THEN Append(sortedOrder, u) ELSE sortedOrder
           r == Relax(Adj(ns, cs, u), Tail(queue), inDegree)
       IN  KahnLoop(ns, cs, r.queue, r.inDegree, sorted2)

NodeIdsOf(ns, cs) ==
  Range(ns) \cup { cs[i].fromNodeId : i \in 1..Len(cs) }
            \cup { cs[i].toNodeId : i \in 1..Len(cs) }

InitialQueue(ns, cs) == SelectSeq(ns, LAMBDA n : InDegree(cs, n) = 0)

SortedOrder(ns, cs) ==
  KahnLoop(ns, cs, InitialQueue(ns, cs),
           [v \in NodeIdsOf(ns, cs) |-> InDegree(cs, v)], <<>>)

ERR_CYCLE ==
  [kind |-> "validation", step |-> 0, image |-> 0,
   message |-> << "Workflow has a cycle or is disconnected. Please ensure all nodes form a single, valid flow from start to end." >>]

\* Mutant of getExecutionOrder: the length check is missing.
getExecutionOrder_NoLengthCheck(ns, cs) ==
  IF Len(ns) = 0 THEN [valid |-> TRUE, order |-> <<>>, error |-> NoError, setsError |-> FALSE]
  ELSE [valid |-> TRUE, order |-> SortedOrder(ns, cs), error |-> NoError, setsError |-> TRUE]

\* Mutant of getExecutionOrder: an empty step list gives null and no error.
getExecutionOrder_EmptyIsNull(ns, cs) ==
  IF Len(ns) = 0 THEN [valid |-> FALSE, order |-> <<>>, error |-> NoError, setsError |-> FALSE]
  ELSE LET sortedOrder == SortedOrder(ns, cs)
       IN  IF Len(sortedOrder) # Len(ns)
           THEN [valid |-> FALSE, order |-> <<>>, error |-> ERR_CYCLE, setsError |-> TRUE]
           ELSE [valid |-> TRUE, order |-> sortedOrder, error |-> NoError, setsError |-> TRUE]

\* The value returned (order; valid = FALSE stands for null) and the error
\* message getExecutionOrder sets.
getExecutionOrder(ns, cs) ==
  IF Len(ns) = 0 THEN [valid |-> TRUE, order |-> <<>>, error |-> NoError, setsError |-> FALSE]
  ELSE LET sortedOrder == SortedOrder(ns, cs)
       IN  IF Len(sortedOrder) # Len(ns)
           THEN [valid |-> FALSE, order |-> <<>>, error |-> ERR_CYCLE, setsError |-> TRUE]
           ELSE [valid |-> TRUE, order |-> sortedOrder, error |-> NoError, setsError |-> TRUE]

\* ------------------------------------------------------------- data URLs
\* A data URL `data:<mime>;base64,<data>` is the 4-tuple of its parts; any
\* other value is a string the regular expression of parseDataUrl rejects.
DataUrl(mimeType, base64Data) == << "data:", mimeType, ";base64,", base64Data >>

IsDataUrl(u) == Len(u) = 4 /\ u[1] = "data:" /\ u[3] = ";base64,"

parseDataUrl(u) == [mimeType |-> u[2], base64Data |-> u[4]]

\* The image the backend returns for (input bytes, prompt): the input's
\* history extended by the prompt, so that every result tells which upload
\* it descends from and which prompts were applied, in which order.
Edited(base64Data, prompt) == Append(base64Data, prompt)

\* FileUploader.processFiles: id, file name and the FileReader data URL.
Upload(i) == [id |-> i, name |-> i, dataUrl |-> DataUrl("image/jpeg", << i >>)]

\* A step's name and prompt are attributes of the node; the model identifies
\* the node with its id.
NameOf(n) == n
PromptOf(n) == n

\* ----------------------------------------------------------- error values
ABORT_MSG == << "Request aborted" >>
AbortError == [name |-> "Error", message |-> ABORT_MSG, details |-> {}]
Error(msg) == [name |-> "Error", message |-> msg, details |-> {}]
QuotaError(msg, details) == [name |-> "QuotaError", message |-> msg, details |-> details]

\* What a generateContent request can come back with.  marker: the error
\* text matches /quota|429|Too Many Requests|RESOURCE_EXHAUSTED|Quota exceeded/i;
\* suggested: the delay in ms the text carries ("retry in Ns" or retryDelay),
\* NoDelay when it carries none.
NoDelay == 0 - 1
SuggestedDelays == { NoDelay, 45000 }

NoResponse == [kind |-> "none", marker |-> FALSE, suggested |-> NoDelay, text |-> << >>]

Responses ==
  { [kind |-> "image", marker |-> FALSE, suggested |-> NoDelay, text |-> << "ok" >>],
    [kind |-> "blocked", marker |-> FALSE, suggested |-> NoDelay,
     text |-> << "Request blocked by safety policy" >>],
    [kind |-> "finish", marker |-> FALSE, suggested |-> NoDelay,
     text |-> << "Image generation failed. Reason" >>],
    [kind |-> "noimage", marker |-> FALSE, suggested |-> NoDelay,
     text |-> << "API response did not contain an image." >>],
    [kind |-> "transport", marker |-> FALSE, suggested |-> NoDelay,
     text |-> << "fetch failed" >>] }
  \cup { [kind |-> "quota", marker |-> TRUE, suggested |-> d,
          text |-> << "RESOURCE_EXHAUSTED" >>] : d \in SuggestedDelays }

\* ------------------------------------------------- the state as one record
Cur ==
  [ outputs |-> outputs, logs |-> logs, isLoading |-> isLoading,
    loadingMessage |-> loadingMessage, error |-> error,
    notification |-> notification, abortController |-> abortController,
    retryInfo |-> retryInfo, pc |-> pc, outcome |-> outcome,
    workflow |-> workflow, runImages |-> runImages, imageIndex |-> imageIndex,
    stepIndex |-> stepIndex, currentImageDataUrl |-> currentImageDataUrl,
    aborted |-> aborted, modelIndex |-> modelIndex, attempt |-> attempt,
    modelFailures |-> modelFailures, calls |-> calls, requests |-> requests,
    retries |-> retries, sleeps |-> sleeps, lastCall |-> lastCall,
    lastResponse |-> lastResponse, logBase |-> logBase, ai |-> ai,
    sleepMs |-> sleepMs ]

Becomes(s) ==
  /\ outputs' = s.outputs
  /\ logs' = s.logs
  /\ isLoading' = s.isLoading
  /\ loadingMessage' = s.loadingMessage
  /\ error' = s.error
  /\ notification' = s.notification
  /\ abortController' = s.abortController
  /\ retryInfo' = s.retryInfo
  /\ pc' = s.pc
  /\ outcome' = s.outcome
  /\ workflow' = s.workflow
  /\ runImages' = s.runImages
  /\ imageIndex' = s.imageIndex
  /\ stepIndex' = s.stepIndex
  /\ currentImageDataUrl' = s.currentImageDataUrl
  /\ aborted' = s.aborted
  /\ modelIndex' = s.modelIndex
  /\ attempt' = s.attempt
  /\ modelFailures' = s.modelFailures
  /\ calls' = s.calls
  /\ requests' = s.requests
  /\ retries' = s.retries
  /\ sleeps' = s.sleeps
  /\ lastCall' = s.lastCall
  /\ lastResponse' = s.lastResponse
  /\ logBase' = s.logBase
  /\ sleepMs' = s.sleepMs

\* ------------------------------------------------ executeWorkflow: the end
\* Mutant of addLogEntry: the new record is put in front of the log.
addLogEntry_Prepend(s, status, cost, credits) ==
  [s EXCEPT !.logs = << [imageName |-> s.runImages[s.imageIndex].name,
                         nodeName |-> NameOf(s.workflow[s.stepIndex]),
                         status |-> status, cost |-> cost,
                         credits |-> credits] >> \o @]

\* addLogEntry (id and timestamp are fresh values no claim reads).
addLogEntry(s, status, cost, credits) ==
  [s EXCEPT !.logs = Append(@, [imageName |-> s.runImages[s.imageIndex].name,
                                 nodeName |-> NameOf(s.workflow[s.stepIndex]),
                                 status |-> status, cost |-> cost,
                                 credits |-> credits])]

\* the finally block, and the end of the call with the given outcome.
Finally(s, how) ==
  [s EXCEPT !.isLoading = FALSE, !.loadingMessage = << >>,
            !.abortController = NULL, !.pc = "idle", !.outcome = how]

\* Mutant of RunnerCatch: a failure discards the outputs of the run.
RunnerCatch_ClearsOutputs(s, e) ==
  LET step == s.workflow[s.stepIndex]
      image == s.runImages[s.imageIndex]
  IN  IF e.name = "AbortError" \/ e.message = ABORT_MSG
      THEN Finally([s EXCEPT !.notification = << "Workflow cancelled by user." >>,
                             !.retryInfo = NoRetryInfo, !.lastCall = "aborted"],
                   "cancelled")
      ELSE LET s1 == IF e.name = "QuotaError"
                     THEN [s EXCEPT !.error = [kind |-> "quota", step |-> NameOf(step),
                                                image |-> image.name,
                                                message |-> << "Quota exceeded while processing" >>],
                                    !.notification = << "Quota/rate-limit reached." >>,
                                    !.lastCall = "quota"]
                     ELSE [s EXCEPT !.error = [kind |-> "step", step |-> NameOf(step),
                                                image |-> image.name,
                                                message |-> << "Error on" >> \o e.message],
                                    !.lastCall = "fatal"]
               s2 == addLogEntry(s1, "failure", 0, 0)
           IN  Finally([s2 EXCEPT !.retryInfo = NoRetryInfo, !.outputs = << >>], "failed")

\* the catch block of the step loop.
RunnerCatch(s, e) ==
  LET step == s.workflow[s.stepIndex]
      image == s.runImages[s.imageIndex]
  IN  IF e.name = "AbortError" \/ e.message = ABORT_MSG
      THEN Finally([s EXCEPT !.notification = << "Workflow cancelled by user." >>,
                             !.retryInfo = NoRetryInfo, !.lastCall = "aborted"],
                   "cancelled")
      ELSE LET s1 == IF e.name = "QuotaError"
                     THEN [s EXCEPT !.error = [kind |-> "quota", step |-> NameOf(step),
                                                image |-> image.name,
                                                message |-> << "Quota exceeded while processing" >>],
                                    !.notification = << "Quota/rate-limit reached." >>,
                                    !.lastCall = "quota"]
                     ELSE [s EXCEPT !.error = [kind |-> "step", step |-> NameOf(step),
                                                image |-> image.name,
                                                message |-> << "Error on" >> \o e.message],
                                    !.lastCall = "fatal"]
               s2 == addLogEntry(s1, "failure", 0, 0)
           IN  Finally([s2 EXCEPT !.retryInfo = NoRetryInfo], "failed")

\* --------------------------------------------- editImage / attemptGenerate
\* the catch block of editImage's model loop.  attemptGenerate never throws
\* a QuotaError, so the `instanceof QuotaError` branch is dead and every
\* error is re-thrown to the caller, the catch block of the step loop.
EditCatch(s, err) == RunnerCatch(s, err)

\* Mutant of AttemptFailed: the pause before the next model starts without a
\* look at the signal.
AttemptFailed_NoAbortCheck(s) ==
  [s EXCEPT !.modelFailures = @ \cup { s.modelIndex }, !.pc = "pause",
            !.sleepMs = PAUSE_MS]

\* editImage after attemptGenerate returned { success: false }: record the
\* failure, check the signal and start the pause before the next model.
AttemptFailed(s) ==
  LET s1 == [s EXCEPT !.modelFailures = @ \cup { s.modelIndex }]
  IN  IF s1.aborted THEN EditCatch(s1, AbortError)
      ELSE [s1 EXCEPT !.pc = "pause", !.sleepMs = PAUSE_MS]

\* onRetry as executeWorkflow passes it.
onRetry(s, n, delayMs, model) ==
  [s EXCEPT !.retryInfo = [model |-> model, attempt |-> n, backoffMs |-> delayMs],
            !.loadingMessage = << "Retrying model" >>,
            !.notification = << "Retrying" >>,
            !.retries = Append(@, [model |-> model, attempt |-> n,
                                   sleeps |-> s.sleeps])]

\* Mutant of Backoff: the delay grows by INITIAL_DELAY_MS per attempt.
Backoff_Linear(n) == Min(INITIAL_DELAY_MS * n, MAX_DELAY_MS)

\* Math.min(INITIAL_DELAY_MS * 2 ** (attempt - 1), MAX_DELAY_MS)
Backoff(n) == Min(INITIAL_DELAY_MS * Pow2(n - 1), MAX_DELAY_MS)

\* Mutants of MayRetry: one retry more, one retry less, a retry on any error.
MayRetry_OneMore(isQuota, n) == isQuota /\ n <= MAX_RETRIES + 1
MayRetry_OneLess(isQuota, n) == isQuota /\ n < MAX_RETRIES
MayRetry_AnyError(isQuota, n) == n <= MAX_RETRIES

\* `isQuota && attempt <= MAX_RETRIES`: wait and retry on the same model.
MayRetry(isQuota, n) == isQuota /\ n <= MAX_RETRIES

\* the catch block of attemptGenerate's retry loop; e is the error thrown in
\* the try block.
AttemptCatch(s, e) ==
  LET s1 == [s EXCEPT !.attempt = @ + 1]
      isQuota == e.marker
      suggestedDelayMs == e.suggested
  IN  IF MayRetry(isQuota, s1.attempt)
      THEN LET backoff == IF suggestedDelayMs # NoDelay THEN suggestedDelayMs
                          ELSE Backoff(s1.attempt)
               s2 == onRetry(s1, s1.attempt, backoff, s1.modelIndex)
           IN  IF s2.aborted THEN EditCatch(s2, AbortError)
               ELSE [s2 EXCEPT !.pc = "backoff", !.sleeps = @ + 1, !.sleepMs = backoff]
      ELSE IF isQuota THEN AttemptFailed(s1)
      ELSE EditCatch(s1, Error(<< "AI processing failed: " >> \o e.text))

\* one iteration of the retry loop up to the request.
BeginAttempt(s) ==
  IF s.attempt <= MAX_RETRIES
  THEN IF s.aborted
       THEN AttemptCatch(s, [kind |-> "aborted", marker |-> FALSE,
                             suggested |-> NoDelay, text |-> ABORT_MSG])
       ELSE [s EXCEPT !.pc = "request", !.requests = Append(@, s.modelIndex)]
  ELSE AttemptFailed(s)

\* attemptGenerate(model, ...) from its first line.
BeginModel(s, m) ==
  BeginAttempt([s EXCEPT !.modelIndex = m, !.attempt = 0,
                         !.retries = << >>, !.sleeps = 0])

\* Mutant of NextModel: falls through to the last model of the list.
NextModel_SkipToLast(s) ==
  IF s.modelIndex < Len(MODEL_PREFERENCES)
  THEN BeginModel(s, Len(MODEL_PREFERENCES))
  ELSE RunnerCatch(s, QuotaError(<< "All attempted Gemini models were unavailable" >>,
                                 s.modelFailures))

\* the model loop of editImage moves on; after the last model, QuotaError.
NextModel(s) ==
  IF s.modelIndex < Len(MODEL_PREFERENCES)
  THEN BeginModel(s, s.modelIndex + 1)
  ELSE RunnerCatch(s, QuotaError(<< "All attempted Gemini models were unavailable" >>,
                                 s.modelFailures))

\* Mutant of BeginStep: editImage does not look at the signal before its
\* first request.
BeginStep_NoAbortCheck(s) ==
  LET s1 == [s EXCEPT !.loadingMessage = << "Processing Image" >>]
  IN  IF ~s1.ai
      THEN RunnerCatch(s1, Error(<< "API key not configured." >>))
      ELSE IF ~IsDataUrl(s1.currentImageDataUrl)
      THEN RunnerCatch(s1, Error(<< "Invalid data URL format" >>))
      ELSE BeginModel([s1 EXCEPT !.calls = Append(@, [image |-> s1.imageIndex,
                                                      step |-> s1.stepIndex,
                                                      node |-> s1.workflow[s1.stepIndex],
                                                      input |-> s1.currentImageDataUrl]),
                                 !.modelFailures = {},
                                 !.requests = << >>,
                                 !.lastCall = "running"], 1)

\* Mutant of BeginStep: the model loop resumes at the backend the previous
\* call ended on.
BeginStep_StickyModel(s) ==
  LET s1 == [s EXCEPT !.loadingMessage = << "Processing Image" >>]
  IN  IF ~s1.ai
      THEN RunnerCatch(s1, Error(<< "API key not configured." >>))
      ELSE IF s1.aborted THEN RunnerCatch(s1, AbortError)
      ELSE IF ~IsDataUrl(s1.currentImageDataUrl)
      THEN RunnerCatch(s1, Error(<< "Invalid data URL format" >>))
      ELSE BeginModel([s1 EXCEPT !.calls = Append(@, [image |-> s1.imageIndex,
                                                      step |-> s1.stepIndex,
                                                      node |-> s1.workflow[s1.stepIndex],
                                                      input |-> s1.currentImageDataUrl]),
                                 !.modelFailures = {},
                                 !.requests = << >>,
                                 !.lastCall = "running"],
                      IF s1.modelIndex = 0 THEN 1 ELSE s1.modelIndex)

\* one iteration of the step loop up to the first request of editImage.
BeginStep(s) ==
  LET s1 == [s EXCEPT !.loadingMessage = << "Processing Image" >>]
  IN  IF ~s1.ai
      THEN RunnerCatch(s1, Error(<< "API key not configured." >>))
      ELSE IF s1.aborted THEN RunnerCatch(s1, AbortError)
      ELSE IF ~IsDataUrl(s1.currentImageDataUrl)
      THEN RunnerCatch(s1, Error(<< "Invalid data URL format" >>))
      ELSE BeginModel([s1 EXCEPT !.calls = Append(@, [image |-> s1.imageIndex,
                                                      step |-> s1.stepIndex,
                                                      node |-> s1.workflow[s1.stepIndex],
                                                      input |-> s1.currentImageDataUrl]),
                                 !.modelFailures = {},
                                 !.requests = << >>,
                                 !.lastCall = "running"], 1)

\* Mutant of BeginImage: the next image starts from the data left by the
\* previous one.
BeginImage_KeepsCurrent(s, i) ==
  IF i > Len(s.runImages) THEN Finally(s, "completed")
  ELSE IF s.aborted THEN Finally(s, "threw")
  ELSE BeginStep([s EXCEPT !.imageIndex = i, !.stepIndex = 1,
                           !.currentImageDataUrl =
                              IF i = 1 THEN s.runImages[i].dataUrl ELSE @])

\* one iteration of the image loop up to the first request.
BeginImage(s, i) ==
  IF i > Len(s.runImages) THEN Finally(s, "completed")
  ELSE IF s.aborted THEN Finally(s, "threw")
  ELSE BeginStep([s EXCEPT !.imageIndex = i, !.stepIndex = 1,
                           !.currentImageDataUrl = s.runImages[i].dataUrl])

\* Mutant of StepSucceeded: the loops nest the other way round, every image
\* goes through a step before the next step starts.
StepSucceeded_StepsOuter(s, resultDataUrl) ==
  LET image == s.runImages[s.imageIndex]
      s1 == [s EXCEPT !.currentImageDataUrl = resultDataUrl,
                      !.retryInfo = NoRetryInfo, !.lastCall = "image"]
      s2 == addLogEntry(s1, "success", SIMULATED_COST_PER_OP, SIMULATED_CREDITS_PER_OP)
      s3 == IF s2.stepIndex = Len(s2.workflow)
            THEN [s2 EXCEPT !.outputs = Append(@, [originalImageId |-> image.id,
                                                    originalFileName |-> image.name,
                                                    dataUrl |-> s2.currentImageDataUrl])]
            ELSE s2
  IN  IF s3.imageIndex < Len(s3.runImages)
      THEN BeginStep([s3 EXCEPT !.imageIndex = @ + 1,
                                !.currentImageDataUrl = s3.runImages[s3.imageIndex + 1].dataUrl])
      ELSE IF s3.stepIndex < Len(s3.workflow)
      THEN BeginStep([s3 EXCEPT !.imageIndex = 1, !.stepIndex = @ + 1,
                                !.currentImageDataUrl = s3.runImages[1].dataUrl])
      ELSE Finally(s3, "completed")

\* Mutant of StepSucceeded: an output is emitted after every step, not only
\* after the last one.
StepSucceeded_OutputEveryStep(s, resultDataUrl) ==
  LET image == s.runImages[s.imageIndex]
      s1 == [s EXCEPT !.currentImageDataUrl = resultDataUrl,
                      !.retryInfo = NoRetryInfo, !.lastCall = "image"]
      s2 == addLogEntry(s1, "success", SIMULATED_COST_PER_OP, SIMULATED_CREDITS_PER_OP)
      s3 == [s2 EXCEPT !.outputs = Append(@, [originalImageId |-> image.id,
                                              originalFileName |-> image.name,
                                              dataUrl |-> s2.currentImageDataUrl])]
  IN  IF s3.stepIndex < Len(s3.workflow)
      THEN BeginStep([s3 EXCEPT !.stepIndex = @ + 1])
      ELSE BeginImage(s3, s3.imageIndex + 1)

\* Mutant of StepSucceeded: the steps are branches, each step works on the
\* upload and the output is the result of the last one.
StepSucceeded_BranchFromUpload(s, resultDataUrl) ==
  LET image == s.runImages[s.imageIndex]
      s1 == [s EXCEPT !.retryInfo = NoRetryInfo, !.lastCall = "image"]
      s2 == addLogEntry(s1, "success", SIMULATED_COST_PER_OP, SIMULATED_CREDITS_PER_OP)
      s3 == IF s2.stepIndex = Len(s2.workflow)
            THEN [s2 EXCEPT !.outputs = Append(@, [originalImageId |-> image.id,
                                                    originalFileName |-> image.name,
                                                    dataUrl |-> resultDataUrl])]
            ELSE s2
  IN  IF s3.stepIndex < Len(s3.workflow)
      THEN BeginStep([s3 EXCEPT !.stepIndex = @ + 1])
      ELSE BeginImage(s3, s3.imageIndex + 1)

\* the step loop after editImage returned resultDataUrl.
StepSucceeded(s, resultDataUrl) ==
  LET image == s.runImages[s.imageIndex]
      s1 == [s EXCEPT !.currentImageDataUrl = resultDataUrl,
                      !.retryInfo = NoRetryInfo, !.lastCall = "image"]
      s2 == addLogEntry(s1, "success", SIMULATED_COST_PER_OP, SIMULATED_CREDITS_PER_OP)
      s3 == IF s2.stepIndex = Len(s2.workflow)
            THEN [s2 EXCEPT !.outputs = Append(@, [originalImageId |-> image.id,
                                                    originalFileName |-> image.name,
                                                    dataUrl |-> s2.currentImageDataUrl])]
            ELSE s2
  IN  IF s3.stepIndex < Len(s3.workflow)
      THEN BeginStep([s3 EXCEPT !.stepIndex = @ + 1])
      ELSE BeginImage(s3, s3.imageIndex + 1)

\* ---------------------------------------------------------------- actions
ERR_NO_KEY ==
  [kind |-> "usage", step |-> 0, image |-> 0,
   message |-> << "Please configure your Gemini API key before running the workflow." >>]
ERR_NO_IMAGES ==
  [kind |-> "usage", step |-> 0, image |-> 0,
   message |-> << "Please upload at least one image to run the workflow." >>]
ERR_NO_STEPS ==
  [kind |-> "usage", step |-> 0, image |-> 0,
   message |-> << "Please add at least one node to the workflow." >>]

\* isApiKeySet()
isApiKeySet == ai

\* executeWorkflow from its first line to its first await (or its return).
ExecuteWorkflow ==
  /\ pc = "idle"
  /\ LET r == getExecutionOrder(nodes, connections)
         s0 == [Cur EXCEPT !.error = r.error, !.workflow = r.order]
     IN  IF ~r.valid
         THEN Becomes([s0 EXCEPT !.outcome = "invalid"]) /\ runs' = runs
         ELSE IF ~isApiKeySet
         THEN Becomes([s0 EXCEPT !.error = ERR_NO_KEY, !.outcome = "usage"]) /\ runs' = runs
         ELSE IF Len(images) = 0
         THEN Becomes([s0 EXCEPT !.error = ERR_NO_IMAGES, !.outcome = "usage"]) /\ runs' = runs
         ELSE IF Len(r.order) = 0
         THEN Becomes([s0 EXCEPT !.error = ERR_NO_STEPS, !.outcome = "usage"]) /\ runs' = runs
         ELSE /\ runs < MaxRuns
              /\ Becomes(BeginImage([s0 EXCEPT !.abortController = runs + 1,
                                               !.aborted = FALSE,
                                               !.retryInfo = NoRetryInfo,
                                               !.isLoading = TRUE,
                                               !.outputs = << >>,
                                               !.runImages = images,
                                               !.outcome = "running",
                                               !.lastResponse = NoResponse,
                                               !.logBase = Len(logs),
                                               !.calls = << >>], 1))
              /\ runs' = runs + 1
  /\ UNCHANGED << reading, connecting, nodeToDelete, selectedNodeId, overlap >>
  /\ UNCHANGED << nodes, connections, images, ai, apiKey >>

\* generateContent resolves with an image part: attemptGenerate returns
\* success, editImage returns the data URL, the step loop goes on.
RequestSucceeds ==
  /\ pc = "request"
  /\ LET in == parseDataUrl(currentImageDataUrl)
         step == workflow[stepIndex]
         result == DataUrl("image/png", Edited(in.base64Data, PromptOf(step)))
     IN  \E resp \in { r \in Responses : r.kind = "image" } :
           Becomes(StepSucceeded([Cur EXCEPT !.lastResponse = resp], result))
  /\ UNCHANGED << reading, connecting, nodeToDelete, selectedNodeId, overlap >>
  /\ UNCHANGED << nodes, connections, images, ai, apiKey, runs >>

\* generateContent rejects, or resolves without an image part.
RequestFails ==
  /\ pc = "request"
  /\ \E resp \in { r \in Responses : r.kind # "image" } :
        Becomes(AttemptCatch([Cur EXCEPT !.lastResponse = resp], resp))
  /\ UNCHANGED << reading, connecting, nodeToDelete, selectedNodeId, overlap >>
  /\ UNCHANGED << nodes, connections, images, ai, apiKey, runs >>

\* Mutant of BackoffEnds: the signal is not checked after the sleep.
BackoffEnds_NoCheck ==
  /\ pc = "backoff"
  /\ Becomes(BeginAttempt([Cur EXCEPT !.sleepMs = 0]))
  /\ UNCHANGED << reading, connecting, nodeToDelete, selectedNodeId, overlap >>
  /\ UNCHANGED << nodes, connections, images, ai, apiKey, runs >>

\* await sleep(backoff) resolves.
BackoffEnds ==
  /\ pc = "backoff"
  /\ LET s == [Cur EXCEPT !.sleepMs = 0]
     IN  Becomes(IF aborted THEN EditCatch(s, AbortError) ELSE BeginAttempt(s))
  /\ UNCHANGED << reading, connecting, nodeToDelete, selectedNodeId, overlap >>
  /\ UNCHANGED << nodes, connections, images, ai, apiKey, runs >>

\* await sleep(250) resolves.
PauseEnds ==
  /\ pc = "pause"
  /\ LET s == [Cur EXCEPT !.sleepMs = 0]
     IN  Becomes(IF aborted THEN EditCatch(s, AbortError) ELSE NextModel(s))
  /\ UNCHANGED << reading, connecting, nodeToDelete, selectedNodeId, overlap >>
  /\ UNCHANGED << nodes, connections, images, ai, apiKey, runs >>

\* the Cancel button of the loading overlay.
Cancel ==
  /\ isLoading
  /\ aborted' = (IF abortController # NULL THEN TRUE ELSE aborted)
  /\ notification' = << "Cancelling workflow..." >>
  /\ UNCHANGED << sleepMs, reading, connecting, nodeToDelete, selectedNodeId, overlap >>
  /\ UNCHANGED << nodes, connections, images, ai, apiKey, outputs, logs, isLoading,
                  loadingMessage, error, abortController, retryInfo, pc, outcome,
                  workflow, runImages, imageIndex, stepIndex, currentImageDataUrl,
                  modelIndex, attempt, modelFailures, calls, requests, retries,
                  sleeps, lastCall, lastResponse, logBase, runs >>

\* ------------------------------------------- actions outside of a run
\* While isLoading the loading overlay covers the page (fixed inset-0 z-50),
\* so the settings dialog and the editor toolbar are reached only when no run
\* is active.
ERR_SAVE_KEY ==
  [kind |-> "storage", step |-> 0, image |-> 0,
   message |-> << "Failed to save API key. Please try again." >>]

\* handleApiKeyChange(newApiKey): Save passes the trimmed, non-empty key,
\* Clear passes "".  localStorage.setItem may throw; setApiKey is then skipped.
HandleApiKeyChange ==
  /\ ~isLoading
  /\ \E newApiKey \in { NoKey, SavedKey }, storageThrows \in BOOLEAN :
        /\ apiKey' = newApiKey
        /\ IF storageThrows
           THEN ai' = ai /\ error' = ERR_SAVE_KEY
           ELSE /\ ai' = (IF newApiKey # NoKey THEN TRUE ELSE ai)
                /\ error' = error
  /\ UNCHANGED << sleepMs, reading, connecting, nodeToDelete, selectedNodeId, overlap >>
  /\ UNCHANGED << nodes, connections, images, outputs, logs, isLoading,
                  loadingMessage, notification, abortController, retryInfo, pc,
                  outcome, workflow, runImages, imageIndex, stepIndex,
                  currentImageDataUrl, aborted, modelIndex, attempt,
                  modelFailures, calls, requests, retries, sleeps, lastCall,
                  lastResponse, logBase, runs >>

\* clearWorkflow
ClearWorkflow ==
  /\ ~isLoading
  /\ nodes' = << >>
  /\ connections' = << >>
  /\ notification' = << "Workflow cleared." >>
  /\ UNCHANGED << sleepMs, reading, connecting, nodeToDelete, selectedNodeId, overlap >>
  /\ UNCHANGED << images, ai, apiKey, outputs, logs, isLoading, loadingMessage,
                  error, abortController, retryInfo, pc, outcome, workflow,
                  runImages, imageIndex, stepIndex, currentImageDataUrl, aborted,
                  modelIndex, attempt, modelFailures, calls, requests, retries,
                  sleeps, lastCall, lastResponse, logBase, runs >>

\* handleFilesChange(newFiles), called by FileUploader when the FileReaders
\* of a selection have all finished.
HandleFilesChange ==
  /\ ~isLoading
  /\ \E k \in 0..MaxSessionImages : images' = [i \in 1..k |-> Upload(i)]
  /\ outputs' = << >>
  /\ UNCHANGED << sleepMs, reading, connecting, nodeToDelete, selectedNodeId, overlap >>
  /\ UNCHANGED << nodes, connections, ai, apiKey, logs, isLoading,
                  loadingMessage, error, notification, abortController,
                  retryInfo, pc, outcome, workflow, runImages, imageIndex,
                  stepIndex, currentImageDataUrl, aborted, modelIndex, attempt,
                  modelFailures, calls, requests, retries, sleeps, lastCall,
                  lastResponse, logBase, runs >>

\* ------------------------------------------------------------ the editor
\* a connection of the workflow graph
Connection(f, t) == [fromNodeId |-> f, toNodeId |-> t]

\* the state of a run and of its bookkeeping
runVars ==
  << outputs, logs, isLoading, loadingMessage, error, notification,
     abortController, retryInfo, pc, outcome, workflow, runImages, imageIndex,
     stepIndex, currentImageDataUrl, aborted, modelIndex, attempt,
     modelFailures, calls, requests, retries, sleeps, lastCall, lastResponse,
     logBase, runs, sleepMs >>

\* what the editor never touches
notEditor == << runVars, images, ai, apiKey, reading, overlap >>

\* the node ids a connection list mentions
EndsOf(conns) ==
  { conns[i].fromNodeId : i \in 1..Len(conns) } \cup
  { conns[i].toNodeId : i \in 1..Len(conns) }

\* the ids that nothing in the application holds
FreshIds ==
  (1..(MaxEditorNodes + 1)) \ (Range(nodes) \cup EndsOf(connections)
                               \cup { connecting, nodeToDelete, selectedNodeId })

\* crypto.randomUUID(): a new id. Ids are only compared for equality, so
\* the least unused one stands for any of them.
randomUUID == CHOOSE id \in FreshIds : \A other \in FreshIds : id <= other

\* the modal dialog "Confirm Deletion" is open
DialogOpen == nodeToDelete # NULL

\* a mouse button can be pressed on the canvas: no dialog or overlay covers
\* it, and the button is not held down by a connection being dragged
CanPress == ~DialogOpen /\ ~isLoading /\ connecting = NULL

\* addNode, from the Add Node panel.
AddNode ==
  /\ CanPress
  /\ Len(nodes) < MaxEditorNodes
  /\ FreshIds # {}
  /\ nodes' = Append(nodes, randomUUID)
  /\ UNCHANGED << connections, connecting, nodeToDelete, selectedNodeId >>
  /\ UNCHANGED notEditor

\* a click on a node: onClick of Node.
SelectNode ==
  /\ CanPress
  /\ \E id \in Range(nodes) : selectedNodeId' = id
  /\ UNCHANGED << nodes, connections, connecting, nodeToDelete >>
  /\ UNCHANGED notEditor

\* mouse down on the output socket of a node.
HandleStartConnection ==
  /\ CanPress
  /\ \E fromNodeId \in Range(nodes) : connecting' = fromNodeId
  /\ UNCHANGED << nodes, connections, nodeToDelete, selectedNodeId >>
  /\ UNCHANGED notEditor

\* mouse up on the canvas, or the pointer leaves the canvas.
HandleCanvasMouseUp ==
  /\ connecting' = NULL
  /\ UNCHANGED << nodes, connections, nodeToDelete, selectedNodeId >>
  /\ UNCHANGED notEditor

\* Mutant of HandleEndConnection: source and target are not compared.
HandleEndConnection_AnyTarget ==
  /\ ~DialogOpen
  /\ ~isLoading
  /\ \E toNodeId \in Range(nodes) :
        IF connecting # NULL
        THEN LET alreadyExists ==
                   \E i \in 1..Len(connections) :
                      connections[i] = Connection(connecting, toNodeId)
             IN  IF ~alreadyExists
                 THEN /\ Len(connections) < MaxEditorConns
                      /\ connections' = Append(connections, Connection(connecting, toNodeId))
                 ELSE connections' = connections
        ELSE connections' = connections
  /\ connecting' = NULL
  /\ UNCHANGED << nodes, nodeToDelete, selectedNodeId >>
  /\ UNCHANGED notEditor

\* mouse up on the input socket of a node (the event does not reach the
\* canvas).
HandleEndConnection ==
  /\ ~DialogOpen
  /\ ~isLoading
  /\ \E toNodeId \in Range(nodes) :
        IF connecting # NULL /\ connecting # toNodeId
        THEN LET alreadyExists ==
                   \E i \in 1..Len(connections) :
                      connections[i] = Connection(connecting, toNodeId)
             IN  IF ~alreadyExists
                 THEN /\ Len(connections) < MaxEditorConns
                      /\ connections' = Append(connections, Connection(connecting, toNodeId))
                 ELSE connections' = connections
        ELSE connections' = connections
  /\ connecting' = NULL
  /\ UNCHANGED << nodes, nodeToDelete, selectedNodeId >>
  /\ UNCHANGED notEditor

\* the remove button of a node.
RequestRemoveNode ==
  /\ CanPress
  /\ \E id \in Range(nodes) : nodeToDelete' = id
  /\ UNCHANGED << nodes, connections, connecting, selectedNodeId >>
  /\ UNCHANGED notEditor

\* Delete or Backspace on the focused canvas; a key can be pressed while a
\* mouse button is held.
HandleKeyDown ==
  /\ ~isLoading
  /\ selectedNodeId # NULL
  /\ nodeToDelete' = selectedNodeId
  /\ UNCHANGED << nodes, connections, connecting, selectedNodeId >>
  /\ UNCHANGED notEditor

\* handleConfirmRemove, the Delete button of the dialog (by mouse or keyboard).
HandleConfirmRemove ==
  /\ DialogOpen
  /\ nodes' = SelectSeq(nodes, LAMBDA node : node # nodeToDelete)
  /\ connections' = SelectSeq(connections,
                              LAMBDA conn : /\ conn.fromNodeId # nodeToDelete
                                            /\ conn.toNodeId # nodeToDelete)
  /\ selectedNodeId' = (IF selectedNodeId = nodeToDelete THEN NULL ELSE selectedNodeId)
  /\ nodeToDelete' = NULL
  /\ UNCHANGED connecting
  /\ UNCHANGED notEditor

\* handleCancelRemove, the Cancel button or the close button of the dialog.
HandleCancelRemove ==
  /\ DialogOpen
  /\ nodeToDelete' = NULL
  /\ UNCHANGED << nodes, connections, connecting, selectedNodeId >>
  /\ UNCHANGED notEditor

\* Mutant of ExecuteClick: the button stays enabled during a run.
ExecuteClick_AlwaysEnabled ==
  /\ Len(nodes) # 0
  /\ Len(images) # 0
  /\ IF pc = "idle" THEN ExecuteWorkflow
     ELSE /\ overlap' = TRUE
          /\ UNCHANGED << runVars, nodes, connections, images, ai, apiKey, reading,
                          connecting, nodeToDelete, selectedNodeId >>

\* the Execute Workflow button: disabled={isExecuting || nodes.length === 0
\* || !hasImages}. A click while a call of executeWorkflow is suspended
\* would start a second call.
ExecuteClick ==
  /\ ~isLoading
  /\ Len(nodes) # 0
  /\ Len(images) # 0
  /\ IF pc = "idle" THEN ExecuteWorkflow
     ELSE /\ overlap' = TRUE
          /\ UNCHANGED << runVars, nodes, connections, images, ai, apiKey, reading,
                          connecting, nodeToDelete, selectedNodeId >>

\* FileUploader.processFiles: the user picks or drops a file; its FileReader
\* starts.
ProcessFiles ==
  /\ ~isLoading
  /\ reading = << >>
  /\ \E i \in 1..MaxImages : reading' = << i >>
  /\ UNCHANGED << runVars, nodes, connections, images, ai, apiKey, overlap,
                  connecting, nodeToDelete, selectedNodeId >>

\* the FileReaders of processFiles have all finished: the new files that are
\* not yet in the list are appended and onFilesChange (handleFilesChange of
\* App) is called with the list.
FilesRead ==
  /\ reading # << >>
  /\ LET existingIds == { images[i].id : i \in 1..Len(images) }
         newImages == [i \in 1..Len(reading) |-> Upload(reading[i])]
         uniqueNewImages == SelectSeq(newImages, LAMBDA f : f.id \notin existingIds)
     IN  images' = images \o uniqueNewImages
  /\ outputs' = << >>
  /\ reading' = << >>
  /\ UNCHANGED << logs, isLoading, loadingMessage, error, notification,
                  abortController, retryInfo, pc, outcome, workflow, runImages,
                  imageIndex, stepIndex, currentImageDataUrl, aborted, modelIndex,
                  attempt, modelFailures, calls, requests, retries, sleeps, lastCall,
                  lastResponse, logBase, runs, sleepMs >>
  /\ UNCHANGED << nodes, connections, ai, apiKey, overlap, connecting, nodeToDelete,
                  selectedNodeId >>

\* ------------------------------------------------------------ initial states
NodeList(n) == [i \in 1..n |-> i]

\* every connection list of at most maxC connections over the ids 1..maxN
AnyConnections(maxN, maxC) ==
  SeqsUpTo({ Connection(f, t) : f \in 1..maxN, t \in 1..maxN }, maxC)

\* the graphs a run is started on: the steps 1..n unconnected, chained in
\* list order, or chained against list order
RunConnections(n) ==
  { << >>,
    [i \in 1..(n - 1) |-> Connection(i, i + 1)],
    [i \in 1..(n - 1) |-> Connection(n + 1 - i, n - i)] }

\* the useEffect of App on mount: a key found in localStorage is given to
\* the application state and to the service.
LoadApiKey == apiKey = (IF ai THEN SavedKey ELSE NoKey)

InitRest ==
  /\ LoadApiKey
  /\ outputs = << >>
  /\ logs = << >>
  /\ isLoading = FALSE
  /\ loadingMessage = << >>
  /\ error = NoError
  /\ notification = << >>
  /\ abortController = NULL
  /\ retryInfo = NoRetryInfo
  /\ pc = "idle"
  /\ outcome = "none"
  /\ workflow = << >>
  /\ runImages = << >>
  /\ imageIndex = 0
  /\ stepIndex = 0
  /\ currentImageDataUrl = << >>
  /\ aborted = FALSE
  /\ modelIndex = 0
  /\ attempt = 0
  /\ modelFailures = {}
  /\ calls = << >>
  /\ requests = << >>
  /\ retries = << >>
  /\ sleeps = 0
  /\ lastCall = "none"
  /\ lastResponse = NoResponse
  /\ logBase = 0
  /\ runs = 0
  /\ sleepMs = 0
  /\ reading = << >>
  /\ connecting = NULL
  /\ nodeToDelete = NULL
  /\ selectedNodeId = NULL
  /\ overlap = FALSE

Init ==
  /\ \E n \in 0..MaxRunNodes :
        /\ nodes = NodeList(n)
        /\ connections \in RunConnections(n)
  /\ \E k \in 0..MaxImages : images = [i \in 1..k |-> Upload(i)]
  /\ ai \in BOOLEAN
  /\ InitRest

Next ==
  \/ ExecuteWorkflow
  \/ RequestSucceeds
  \/ RequestFails
  \/ BackoffEnds
  \/ PauseEnds
  \/ Cancel

Spec == Init /\ [][Next]_vars

\* Spec with the scheduling the run relies on: a pending generateContent
\* promise settles, and the timer of a pending sleep fires.
SpecLive ==
  /\ Spec
  /\ WF_vars(RequestSucceeds \/ RequestFails)
  /\ WF_vars(BackoffEnds)
  /\ WF_vars(PauseEnds)

\* Branching graphs: step 1 connected to every other step (fan-out), and
\* every other step connected to the last one (fan-in).
FanOut(n) == [i \in 1..(n - 1) |-> Connection(1, i + 1)]
FanIn(n) == [i \in 1..(n - 1) |-> Connection(i, n)]

\* A run on a branching graph.
InitFan ==
  /\ nodes = NodeList(MaxNodes)
  /\ connections \in { FanOut(MaxNodes), FanIn(MaxNodes) }
  /\ images = [i \in 1..MaxSessionImages |-> Upload(i)]
  /\ ai = TRUE
  /\ InitRest

SpecFan == InitFan /\ [][Next]_vars

\* getExecutionOrder on every small graph, well-formed or not: the steps
\* 1..n and every list of connections over their ids and one id that is not
\* a step (a dangling end).
InitOrder ==
  /\ \E n \in 0..MaxNodes :
        /\ nodes = NodeList(n)
        /\ connections \in AnyConnections(Min(n + 1, MaxNodes), MaxConns)
  /\ images = << Upload(1) >>
  /\ ai = TRUE
  /\ InitRest

NextOrder == ExecuteWorkflow

SpecOrder == InitOrder /\ [][NextOrder]_vars

\* A session of the application: one step, one image, then runs, key changes,
\* uploads and clearing of the workflow in any order.
InitSession ==
  /\ nodes = NodeList(1)
  /\ connections = << >>
  /\ images = << Upload(1) >>
  /\ ai \in BOOLEAN
  /\ InitRest

NextSession ==
  \/ ExecuteWorkflow
  \/ RequestSucceeds
  \/ RequestFails
  \/ BackoffEnds
  \/ PauseEnds
  \/ Cancel
  \/ HandleApiKeyChange
  \/ ClearWorkflow
  \/ HandleFilesChange

SpecSession == InitSession /\ [][NextSession]_vars

\* The editor on a workflow of at most MaxEditorNodes steps, with an image
\* uploaded and the API key set: Execute validates the graph, and the run
\* it starts on a valid graph is not followed here (the loading overlay
\* then covers the editor). The workflow is empty or the one restored from
\* localStorage, which nothing validates: a single step, alone or connected
\* to itself.
InitEditor ==
  /\ \/ nodes = << >> /\ connections = << >>
     \/ nodes = NodeList(1) /\ connections \in { << >>, << Connection(1, 1) >> }
  /\ images = << Upload(1) >>
  /\ ai = TRUE
  /\ InitRest

NextEditor ==
  \/ AddNode
  \/ SelectNode
  \/ HandleStartConnection
  \/ HandleCanvasMouseUp
  \/ HandleEndConnection
  \/ RequestRemoveNode
  \/ HandleKeyDown
  \/ HandleConfirmRemove
  \/ HandleCancelRemove
  \/ ExecuteClick

SpecEditor == InitEditor /\ [][NextEditor]_vars

\* Runs with uploads going on: one step, one or more images, and files
\* whose reading may finish at any time.
InitUI ==
  /\ nodes = NodeList(1)
  /\ connections = << >>
  /\ \E k \in 1..MaxImages : images = [i \in 1..k |-> Upload(i)]
  /\ ai = TRUE
  /\ InitRest

NextUI ==
  \/ ExecuteClick
  \/ RequestSucceeds
  \/ RequestFails
  \/ BackoffEnds
  \/ PauseEnds
  \/ Cancel
  \/ ProcessFiles
  \/ FilesRead

SpecUI == InitUI /\ [][NextUI]_vars

TypeOK == pc \in { "idle", "request", "backoff", "pause" }

\* =================================================================== claims
\* ---------------------------------------------------------- graph notions
StepIds == Range(nodes)

Pos(seq, x) == CHOOSE i \in 1..Len(seq) : seq[i] = x

\* a connection from step a to step b exists
Edge(a, b) ==
  /\ a \in StepIds
  /\ b \in StepIds
  /\ \E i \in 1..Len(connections) : connections[i] = Connection(a, b)

EdgesJoinSteps ==
  \A i \in 1..Len(connections) :
     connections[i].fromNodeId \in StepIds /\ connections[i].toNodeId \in StepIds

\* a directed path of 1..k connections leads from a to b
RECURSIVE PathWithin(_, _, _)
PathWithin(a, b, k) ==
  /\ k > 0
  /\ \/ Edge(a, b)
     \/ \E c \in StepIds : Edge(a, c) /\ PathWithin(c, b, k - 1)

HasCycle == \E a \in StepIds : PathWithin(a, a, Len(nodes))

\* a and b are joined by a chain of at most k connections, direction ignored
RECURSIVE JoinedWithin(_, _, _)
JoinedWithin(a, b, k) ==
  \/ a = b
  \/ /\ k > 0
     /\ \E c \in StepIds : (Edge(a, c) \/ Edge(c, a)) /\ JoinedWithin(c, b, k - 1)

Disconnected ==
  /\ Len(nodes) >= 2
  /\ \E a, b \in StepIds : ~JoinedWithin(a, b, Len(nodes))

IsPermutationOf(seq, list) ==
  /\ Len(seq) = Len(list)
  /\ Range(seq) = Range(list)
  /\ \A i, j \in 1..Len(seq) : i # j => seq[i] # seq[j]

Called == outcome # "none"

\* C1: for every acyclic graph whose connections all join existing steps,
\* getExecutionOrder returns a permutation of the step list in which the
\* source of every connection comes before its target.
C1_TopologicalOrder ==
  (Called /\ EdgesJoinSteps /\ ~HasCycle) =>
     /\ outcome # "invalid"
     /\ IsPermutationOf(workflow, nodes)
     /\ \A i \in 1..Len(connections) :
          Pos(workflow, connections[i].fromNodeId) < Pos(workflow, connections[i].toNodeId)

C1_Witness ==
  /\ outcome = "running"
  /\ Len(nodes) = 3
  /\ Len(connections) >= 2
  /\ EdgesJoinSteps
  /\ ~HasCycle
  /\ workflow # nodes

\* C2: a graph with a directed cycle is refused: getExecutionOrder returns
\* null and sets the error, and executeWorkflow returns without a backend
\* request, without entering Running and without a record or an output.
C2_CycleRejected ==
  (Called /\ HasCycle) =>
     /\ outcome = "invalid"
     /\ error = ERR_CYCLE
     /\ pc = "idle"
     /\ ~isLoading
     /\ abortController = NULL
     /\ calls = << >>
     /\ requests = << >>
     /\ logs = << >>
     /\ outputs = << >>

C2_Witness ==
  /\ outcome = "invalid"
  /\ error = ERR_CYCLE
  /\ Len(nodes) = 3
  /\ HasCycle
  /\ \A i \in 1..Len(connections) : connections[i].fromNodeId # connections[i].toNodeId

\* C3 (as claimed): a graph with a disconnected step, or with two separate
\* chains, is refused by getExecutionOrder and no backend request is made.
C3_DisconnectedRejected ==
  (Called /\ Disconnected) => (outcome = "invalid" /\ requests = << >>)

\* the only connection into step x is one connection from step u
OnlyParent(x, u) ==
  /\ Edge(u, x)
  /\ Cardinality({ i \in 1..Len(connections) : connections[i].toNodeId = x }) = 1

HasIncoming(x) == \E i \in 1..Len(connections) : connections[i].toNodeId = x

\* the level of a step of an acyclic graph: the length of the longest chain
\* of connections that ends at it
RECURSIVE Level(_)
Level(x) ==
  LET parents == { p \in StepIds : Edge(p, x) }
  IN  IF parents = {} THEN 0
      ELSE 1 + (CHOOSE l \in { Level(p) : p \in parents } :
                   \A p \in parents : Level(p) <= l)

\* C4 (as claimed): steps that are eligible at the same level are emitted in
\* the order of the step list, whatever the order in which the connections
\* were created.
C4_TieBreakByStepList ==
  (outcome = "running" /\ EdgesJoinSteps /\ ~HasCycle) =>
     \A i, j \in 1..Len(workflow) :
        (i < j /\ Level(workflow[i]) = Level(workflow[j])) =>
           Pos(nodes, workflow[i]) < Pos(nodes, workflow[j])

\* C4 (amended): the steps without an incoming connection are emitted first,
\* in step-list order; two steps whose only incoming connection comes from the
\* same step are emitted in the order in which those connections were created.
C4_TieBreakByQueueOrder ==
  outcome = "running" =>
     /\ LET sources == SelectSeq(nodes, LAMBDA n : ~HasIncoming(n))
        IN  SubSeq(workflow, 1, Len(sources)) = sources
     /\ \A u, a, b \in StepIds :
          (a # b /\ OnlyParent(a, u) /\ OnlyParent(b, u)) =>
             ( Pos(connections, Connection(u, a)) < Pos(connections, Connection(u, b))
               <=> Pos(workflow, a) < Pos(workflow, b) )

C4_Witness ==
  /\ outcome = "running"
  /\ \E u, a, b \in StepIds :
       /\ a # b /\ OnlyParent(a, u) /\ OnlyParent(b, u)
       /\ Pos(nodes, a) < Pos(nodes, b)
       /\ Pos(workflow, b) < Pos(workflow, a)

\* ------------------------------------------------------------ run notions
Count(seq, x) == Cardinality({ i \in 1..Len(seq) : seq[i] = x })

Models == 1..Len(MODEL_PREFERENCES)

FatalKinds == { "blocked", "finish", "noimage", "transport" }

\* this step is the backend answering the request in flight
Answered == pc = "request" /\ (pc' # pc \/ logs' # logs)

SuccessRecord(image, node) ==
  [imageName |-> image.name, nodeName |-> NameOf(node), status |-> "success",
   cost |-> SIMULATED_COST_PER_OP, credits |-> SIMULATED_CREDITS_PER_OP]

\* the image the backend returns for the request in flight
ReturnedImage ==
  DataUrl("image/png",
          Edited(parseDataUrl(currentImageDataUrl).base64Data, PromptOf(workflow[stepIndex])))

C5_Bookkeeping ==
  /\ Len(retries) <= MAX_RETRIES
  /\ \A m \in Models : Count(requests, m) <= MAX_RETRIES + 1
  /\ \A j \in 1..Len(retries) :
        retries[j] = [model |-> modelIndex, attempt |-> j, sleeps |-> j - 1]
  /\ pc = "request" =>
        /\ attempt = Len(retries)
        /\ sleeps = Len(retries)
        /\ Count(requests, modelIndex) = Len(retries) + 1
        /\ (Len(retries) > 0 => lastResponse.kind = "quota")

C5_SuccessReturns ==
  (Answered /\ lastResponse'.kind = "image") =>
     /\ Len(logs') = Len(logs) + 1
     /\ logs'[Len(logs')] = SuccessRecord(runImages[imageIndex], workflow[stepIndex])

\* C5: one attemptGenerate call issues at most 4 requests to its backend;
\* when request k+1 is in flight the k requests before it failed on quota,
\* onRetry was invoked exactly k times, with the attempt numbers 1..k in
\* order, each before the sleep that followed it; and an image answer to that
\* request makes the call return success.
C5_RetryBudget == []C5_Bookkeeping /\ [][C5_SuccessReturns]_vars

C5_Witness ==
  /\ outcome = "completed"
  /\ lastResponse.kind = "image"
  /\ Len(retries) = MAX_RETRIES
  /\ sleeps = MAX_RETRIES
  /\ Count(requests, modelIndex) = MAX_RETRIES + 1

\* C6 (as claimed): a non-quota failure ends editImage after exactly one
\* request on that backend, and the run halts.
C6_ExactlyOneRequest ==
  lastResponse.kind \in FatalKinds =>
     /\ pc = "idle"
     /\ outcome = "failed"
     /\ Count(requests, modelIndex) = 1

\* C6 (amended): a non-quota failure ends editImage at once: the failed
\* request is the last request of the call (it is not retried and no later
\* backend is tried), it follows only the quota-failed requests of the same
\* attemptGenerate call and those of the backends exhausted before, and the
\* error reaches the runner, which records the failure and halts the run.
C6_FatalEndsCall ==
  lastResponse.kind \in FatalKinds =>
     /\ pc = "idle"
     /\ outcome = "failed"
     /\ lastCall = "fatal"
     /\ error.kind = "step"
     /\ ~isLoading
     /\ requests[Len(requests)] = modelIndex
     /\ Count(requests, modelIndex) = Len(retries) + 1
     /\ \A i \in 1..Len(requests) : requests[i] <= modelIndex
     /\ \A m \in Models : m < modelIndex => Count(requests, m) = MAX_RETRIES + 1
     /\ logs[Len(logs)].status = "failure"

C6_Witness ==
  /\ lastResponse.kind = "blocked"
  /\ modelIndex = 2
  /\ Count(requests, modelIndex) = 2
  /\ outcome = "failed"

\* C7: editImage ends with QuotaError exactly when, without cancellation, the
\* last backend has failed on quota for the 4th time; it has then issued
\* exactly 4 requests to each backend, in preference order, every backend is
\* recorded as failed, and one quota error is surfaced by the runner.
C7_AllBackendsExhausted ==
  /\ \A m \in modelFailures : Count(requests, m) = MAX_RETRIES + 1
  /\ ( /\ pc = "idle"
       /\ lastResponse.kind = "quota"
       /\ ~aborted
       /\ Len(requests) = (MAX_RETRIES + 1) * Len(MODEL_PREFERENCES) ) => lastCall = "quota"
  /\ lastCall = "quota" =>
        /\ Len(requests) = (MAX_RETRIES + 1) * Len(MODEL_PREFERENCES)
        /\ \A i \in 1..Len(requests) : requests[i] = ((i - 1) \div (MAX_RETRIES + 1)) + 1
        /\ modelFailures = Models
        /\ lastResponse.kind = "quota"
        /\ outcome = "failed"
        /\ error.kind = "quota"
        /\ pc = "idle"

C7_Witness ==
  /\ lastCall = "quota"
  /\ outcome = "failed"
  /\ Len(requests) = (MAX_RETRIES + 1) * Len(MODEL_PREFERENCES)
  /\ imageIndex = 2

C8_InPreferenceOrder ==
  /\ \A i, j \in 1..Len(requests) : i < j => requests[i] <= requests[j]
  /\ \A i \in 1..Len(requests) : \A m \in Models :
        m < requests[i] => (Count(requests, m) = MAX_RETRIES + 1 /\ m \in modelFailures)

C8_ImageEndsCall ==
  (Answered /\ lastResponse'.kind = "image") =>
     /\ \/ pc' = "idle" /\ requests' = requests
        \/ Len(calls') = Len(calls) + 1 /\ requests' = << 1 >>
     /\ (stepIndex < Len(workflow) /\ ~aborted) =>
           calls'[Len(calls')].input = ReturnedImage
     /\ stepIndex = Len(workflow) =>
           outputs'[Len(outputs')].dataUrl = ReturnedImage

\* C8: within one editImage call a backend receives a request only after
\* every backend before it got its 4 requests and was recorded as failed,
\* and as soon as a backend returns an image the call returns that image
\* and no further request of that call is issued.
C8_Failover == []C8_InPreferenceOrder /\ [][C8_ImageEndsCall]_vars

C8_Witness ==
  /\ outcome = "completed"
  /\ lastResponse.kind = "image"
  /\ modelIndex = 3
  /\ Len(requests) = 2 * (MAX_RETRIES + 1) + 1

Entered == outcome \in { "running", "completed", "cancelled", "failed", "threw" }

\* C9: the editImage calls of a run are the (image, step) pairs in
\* lexicographic order, images in the order supplied and steps in the
\* validated order, and a call is made only after every call before it has
\* succeeded.
C9_ImageThenStepOrder ==
  Entered =>
     \A j \in 1..Len(calls) :
        /\ calls[j].image = ((j - 1) \div Len(workflow)) + 1
        /\ calls[j].step = ((j - 1) % Len(workflow)) + 1
        /\ calls[j].node = workflow[calls[j].step]
        /\ j > 1 => /\ Len(logs) >= logBase + j - 1
                    /\ logs[logBase + j - 1] =
                          SuccessRecord(runImages[calls[j - 1].image], calls[j - 1].node)

C9_Witness ==
  /\ outcome = "completed"
  /\ Len(runImages) = 2
  /\ workflow = << 2, 1 >>
  /\ Len(calls) = 4

\* C10: the input of the call for step s of image i is the result of the
\* call for step s-1 of the same image, and the upload of image i when s = 1;
\* every input descends from the upload of the image the call is made for.
C10_InputThreading ==
  Entered =>
     /\ pc # "idle" => currentImageDataUrl = calls[Len(calls)].input
     /\ \A j \in 1..Len(calls) :
          /\ parseDataUrl(calls[j].input).base64Data[1] = runImages[calls[j].image].id
          /\ IF calls[j].step = 1
             THEN calls[j].input = runImages[calls[j].image].dataUrl
             ELSE /\ calls[j - 1].image = calls[j].image
                  /\ calls[j - 1].step = calls[j].step - 1
                  /\ calls[j].input =
                        DataUrl("image/png",
                                Edited(parseDataUrl(calls[j - 1].input).base64Data,
                                       PromptOf(calls[j - 1].node)))

C10_Witness ==
  /\ Len(calls) = 4
  /\ calls[4].image = 2
  /\ calls[4].step = 2
  /\ outcome = "completed"

\* ------------------------------------------------------- outputs and records
\* the records the current run has appended
RunRecords == SubSeq(logs, logBase + 1, Len(logs))

\* every step of the workflow has a success record for image i in this run
AllStepsSucceeded(i) ==
  \A st \in 1..Len(workflow) :
     \E j \in 1..Len(RunRecords) :
        RunRecords[j] = SuccessRecord(runImages[i], workflow[st])

\* the upload of image after every prompt of the workflow, in order
FinalDataUrl(image) ==
  DataUrl("image/png",
          << image.id >> \o [st \in 1..Len(workflow) |-> PromptOf(workflow[st])])

OutputOf(image, dataUrl) ==
  [originalImageId |-> image.id, originalFileName |-> image.name, dataUrl |-> dataUrl]

C11_Outputs ==
  Entered =>
     /\ Len(outputs) <= Len(runImages)
     /\ \A i \in 1..Len(runImages) : (i <= Len(outputs)) <=> AllStepsSucceeded(i)
     /\ \A i \in 1..Len(outputs) :
           outputs[i] = OutputOf(runImages[i], FinalDataUrl(runImages[i]))

C11_Emission ==
  /\ outputs' # outputs =>
        \/ pc = "idle" /\ outputs' = << >>
        \/ /\ Answered
           /\ lastResponse'.kind = "image"
           /\ stepIndex = Len(workflow)
  /\ (Answered /\ lastResponse'.kind = "image" /\ stepIndex = Len(workflow)) =>
        outputs' = Append(outputs, OutputOf(runImages[imageIndex], ReturnedImage))

\* C11: the outputs of a run are, in the order of the input images, one
\* output for each image all of whose steps have a success record and none
\* for any other image; the output is appended in the step in which the last
\* step's request returns its image, carries that image, which is the upload
\* after every prompt of the workflow, and is tagged with the id and the file
\* name of the upload.
C11_OutputPerImage == []C11_Outputs /\ [][C11_Emission]_vars

C11_Witness ==
  /\ outcome = "failed"
  /\ Len(workflow) = 2
  /\ Len(outputs) = 1
  /\ imageIndex = 2
  /\ stepIndex = 2
  /\ Len(RunRecords) = 4

FailureRecord(image, node) ==
  [imageName |-> image.name, nodeName |-> NameOf(node), status |-> "failure",
   cost |-> 0, credits |-> 0]

Failures == { j \in 1..Len(RunRecords) : RunRecords[j].status = "failure" }

C12_Failed ==
  outcome = "failed" =>
     /\ pc = "idle"
     /\ ~isLoading
     /\ lastCall \in { "quota", "fatal" }
     /\ error.kind = (IF lastCall = "quota" THEN "quota" ELSE "step")
     /\ error.step = NameOf(workflow[stepIndex])
     /\ error.image = runImages[imageIndex].name
     /\ Failures = { Len(RunRecords) }
     /\ RunRecords[Len(RunRecords)] = FailureRecord(runImages[imageIndex], workflow[stepIndex])
     /\ Len(RunRecords) = (imageIndex - 1) * Len(workflow) + stepIndex
     /\ calls[Len(calls)].image = imageIndex
     /\ calls[Len(calls)].step = stepIndex
     /\ Len(outputs) = imageIndex - 1
     /\ \A i \in 1..Len(outputs) :
           outputs[i] = OutputOf(runImages[i], FinalDataUrl(runImages[i]))

C12_Halts ==
  (outcome # "failed" /\ outcome' = "failed") =>
     /\ logs' = Append(logs, FailureRecord(runImages[imageIndex], workflow[stepIndex]))
     /\ outputs' = outputs
     /\ calls' = calls
     /\ requests' = requests

\* C12: when a step fails with QuotaError or a fatal error the run ends in
\* that step: one failure record with cost 0 and credits 0 for that image and
\* step is appended, it is the only failure record and the last record of the
\* run, the error names the step and the image, the failed call is the last
\* editImage call, and the outputs are those of the images before it.
C12_FirstFailureHalts == []C12_Failed /\ [][C12_Halts]_vars

C12_Witness ==
  /\ outcome = "failed"
  /\ lastResponse.kind = "blocked"
  /\ Len(workflow) = 2
  /\ imageIndex = 2
  /\ stepIndex = 1
  /\ Len(outputs) = 1
  /\ Len(RunRecords) = 3

\* the token was signaled while the request of a step that is not the last
\* step of the workflow was in flight, and that request is now answered with
\* an image or with a quota error
C13_Step ==
  ( /\ Answered
    /\ aborted
    /\ stepIndex < Len(workflow)
    /\ lastResponse'.kind \notin FatalKinds ) =>
     /\ pc' = "idle"
     /\ outcome' = "cancelled"
     /\ ~isLoading'
     /\ error' = NoError
     /\ calls' = calls
     /\ requests' = requests
     /\ outputs' = outputs
     /\ Len(outputs') = imageIndex - 1
     /\ logs' = (IF lastResponse'.kind = "image"
                 THEN Append(logs, SuccessRecord(runImages[imageIndex], workflow[stepIndex]))
                 ELSE logs)

CANCEL_NOTICE == << "Workflow cancelled by user." >>

\* C14 (as claimed): a run that ended because executeWorkflow found the token
\* signaled, at the check between two images or at a check inside a step,
\* ended as a normal termination: executeWorkflow returned (it did not
\* throw), the cancellation notice is shown, the run has no failure record
\* and the outputs emitted before are kept.
C14_DetectionIsNormalTermination ==
  (pc = "idle" /\ aborted /\ outcome \in { "cancelled", "threw" }) =>
     /\ outcome = "cancelled"
     /\ notification = CANCEL_NOTICE
     /\ Failures = {}
     /\ \A i \in 1..Len(outputs) :
           outputs[i] = OutputOf(runImages[i], FinalDataUrl(runImages[i]))

\* C15 (as claimed): a run whose token was signaled while it was Running
\* ends as Cancelled, never as Failed and never as Completed.
C15_SignaledRunEndsCancelled ==
  (pc = "idle" /\ aborted) => outcome = "cancelled"

\* the (image, step) pair number j in image-then-step order
PairImage(j) == ((j - 1) \div Len(workflow)) + 1
PairStep(j) == ((j - 1) % Len(workflow)) + 1

C16_Records ==
  Entered =>
     /\ Len(RunRecords) <= Len(runImages) * Len(workflow)
     /\ \A j \in 1..Len(RunRecords) :
           RunRecords[j] =
              IF j = Len(RunRecords) /\ outcome = "failed"
              THEN FailureRecord(runImages[PairImage(j)], workflow[PairStep(j)])
              ELSE SuccessRecord(runImages[PairImage(j)], workflow[PairStep(j)])

C16_Append ==
  /\ (Answered /\ lastResponse'.kind = "image") =>
        logs' = Append(logs, SuccessRecord(runImages[imageIndex], workflow[stepIndex]))
  /\ (pc # "idle" /\ lastCall' \in { "quota", "fatal" }) =>
        logs' = Append(logs, FailureRecord(runImages[imageIndex], workflow[stepIndex]))
  /\ (pc # "idle" /\ lastCall' = "aborted" /\ ~(Answered /\ lastResponse'.kind = "image")) =>
        logs' = logs
  /\ logs' # logs =>
        /\ pc # "idle"
        /\ \/ Answered /\ lastResponse'.kind = "image"
           \/ lastCall' \in { "quota", "fatal" }

\* C16: the records of a run are, in image-then-step order, one record for
\* each (image, step) pair whose attempt has resolved: a success record with
\* the fixed cost and credits for each step that succeeded and, last, a
\* failure record with cost 0 and credits 0 for the step that failed; a record
\* is appended in the step in which the attempt resolves, and an attempt that
\* ends by cancellation appends none.
C16_OneRecordPerAttempt == []C16_Records /\ [][C16_Append]_vars

C16_Witness ==
  /\ outcome = "failed"
  /\ lastResponse.kind = "transport"
  /\ Len(RunRecords) = 4
  /\ RunRecords[4] = FailureRecord(runImages[2], workflow[2])
  /\ RunRecords[3] = SuccessRecord(runImages[2], workflow[1])

C17_Step ==
  (ExecuteWorkflow /\ (Len(nodes) = 0 \/ Len(images) = 0)) =>
     /\ error' = (IF ~ai THEN ERR_NO_KEY
                  ELSE IF Len(images) = 0 THEN ERR_NO_IMAGES
                  ELSE ERR_NO_STEPS)
     /\ outcome' = "usage"
     /\ pc' = "idle"
     /\ ~isLoading'
     /\ abortController' = NULL
     /\ runs' = runs
     /\ calls' = calls
     /\ requests' = requests
     /\ outputs' = outputs
     /\ logs' = logs

\* C17: executeWorkflow called with an empty step list or with no images
\* sets a usage error and returns: it does not enter Running, makes no
\* editImage call and no request, and leaves outputs and log as they were.
C17_EmptyIsUsageError == [][C17_Step]_vars

C17_Witness ==
  /\ outcome = "usage"
  /\ error = ERR_NO_STEPS
  /\ nodes = << >>
  /\ Len(images) > 0
  /\ Len(outputs) > 0
  /\ Len(logs) > 0
  /\ runs > 0

C18_Step ==
  (ExecuteWorkflow /\ apiKey = NoKey) =>
     /\ error' = ERR_NO_KEY
     /\ pc' = "idle"
     /\ ~isLoading'
     /\ calls' = calls
     /\ requests' = requests

\* C18 (as claimed): whenever no API key is configured, because none was
\* ever set or because the key was cleared, executeWorkflow sets the
\* missing-key error and makes no request.
C18_KeylessRunRefused == [][C18_Step]_vars

\* this step issues a request, starts a backoff sleep, starts a pause
NewRequest == pc' = "request" /\ (requests' # requests \/ calls' # calls)
NewBackoff == pc' = "backoff" /\ (pc # "backoff" \/ sleeps' # sleeps)
NewPause == pc' = "pause" /\ (pc # "pause" \/ modelFailures' # modelFailures)

C19_Step ==
  /\ (NewRequest \/ NewBackoff \/ NewPause) => (~aborted' /\ (pc # "idle" => ~aborted))
  /\ (aborted /\ pc # "idle") =>
        /\ requests' = requests
        /\ calls' = calls
        /\ sleeps' = sleeps
        /\ pc' \in { pc, "idle" }

\* C19: a request is issued and a backoff sleep or a pause between backends
\* is started only while the token of the run is not signaled; once it is
\* signaled the run makes no further request, editImage call or sleep, it
\* only waits for the await it is in and ends.
C19_NothingNewAfterSignal == [][C19_Step]_vars

C19_Witness ==
  /\ aborted
  /\ outcome = "cancelled"
  /\ lastResponse.kind = "quota"
  /\ modelFailures = { 1 }
  /\ Len(requests) = MAX_RETRIES + 2
  /\ sleeps = 0

C20_Step ==
  (pc \in { "backoff", "pause" } /\ aborted /\ pc' # pc) =>
     /\ pc' = "idle"
     /\ outcome' = "cancelled"
     /\ lastCall' = "aborted"
     /\ notification' = CANCEL_NOTICE
     /\ ~isLoading'
     /\ requests' = requests
     /\ retries' = retries
     /\ sleeps' = sleeps
     /\ modelIndex' = modelIndex
     /\ calls' = calls
     /\ logs' = logs
     /\ outputs' = outputs
     /\ error' = NoError

\* C20: when the token is signaled during a backoff sleep or during the pause
\* between two backends, the step in which that sleep returns ends the run as
\* cancelled: no request, no onRetry call, no further backend and no editImage
\* call follows, no record is appended and no error is set.
C20_CancelledAfterSleep == [][C20_Step]_vars

C20_Witness ==
  /\ aborted
  /\ outcome = "cancelled"
  /\ Len(retries) = 2
  /\ sleeps = 2
  /\ Count(requests, modelIndex) = 2
  /\ Failures = {}

\* ------------------------------------------------------------------ C21..C30
Terminal == { "completed", "cancelled", "failed" }

C22_Step ==
  /\ (outcome = "running" /\ outcome' # "running") => outcome' \in Terminal
  /\ (outcome # "running" /\ outcome' = "running") => pc = "idle"
  /\ (pc # "idle" /\ pc' = "idle") =>
        /\ ~isLoading'
        /\ loadingMessage' = << >>
        /\ abortController' = NULL
  /\ pc' # "idle" =>
        /\ outcome' = "running"
        /\ isLoading'
        /\ abortController' = runs'

\* C22 (as claimed): a run goes from Idle to Running and from Running to
\* exactly one of Completed, Cancelled and Failed, with no other transition;
\* when a run ends the loading flag is false, the progress message is empty
\* and the stored abort controller is cleared; while a run is Running the
\* stored abort controller is the one of that run.
C22_RunStateMachine == [][C22_Step]_vars

\* this step calls onRetry
OnRetryCalled == Len(retries') = Len(retries) + 1

\* the delay of retry n after the error e, as the claim gives it
C26_Delay(n, e) ==
  IF e.suggested # NoDelay THEN e.suggested ELSE << 1000, 2000, 4000 >>[n]

C26_Step ==
  NewBackoff =>
     LET n == attempt'
     IN  /\ OnRetryCalled
         /\ n \in 1..MAX_RETRIES
         /\ retries'[Len(retries')].attempt = n
         /\ retryInfo'.attempt = n
         /\ retryInfo'.model = modelIndex
         /\ retryInfo'.backoffMs = C26_Delay(n, lastResponse')
         /\ lastResponse'.suggested = NoDelay =>
               retryInfo'.backoffMs = Min(1000 * Pow2(n - 1), 30000)
         /\ sleepMs' = retryInfo'.backoffMs

\* C26: for retry n = 1, 2, 3 of a backend within one call the delay reported
\* to onRetry, and slept when the sleep is started, is the server-suggested
\* delay when the error text carries one and otherwise
\* min(1000 * 2^(n-1), 30000) ms, that is 1000, 2000 and 4000 ms.
C26_RetryDelay == [][C26_Step]_vars

\* the third retry of a backend sleeps 4000 ms after retries of 1000 and 2000 ms
C26_Witness ==
  /\ pc = "backoff"
  /\ attempt = MAX_RETRIES
  /\ sleeps = MAX_RETRIES
  /\ lastResponse.suggested = NoDelay
  /\ sleepMs = 4000
  /\ retryInfo.backoffMs = 4000

\* C27 (as claimed): every delay slept before a retry is at most the
\* 30000 ms cap, whether computed by exponential backoff or suggested by the
\* server.
C27_DelayWithinCap == pc = "backoff" => sleepMs <= MAX_DELAY_MS

\* this step begins an editImage call (the first call of a run, or a
\* further call of the run in progress)
NewCall == runs' # runs \/ calls' # calls

C28_Step ==
  /\ NewCall =>
        /\ modelIndex' = 1
        /\ attempt' = 0
        /\ modelFailures' = {}
        /\ retries' = << >>
        /\ sleeps' = 0
        /\ pc' = "request"
        /\ requests' = << 1 >>
  /\ (requests' # requests /\ ~NewCall) =>
        /\ Len(requests') = Len(requests) + 1
        /\ calls'[Len(calls')].step = stepIndex
        /\ calls'[Len(calls')].image = imageIndex
  /\ Len(requests') <= 4 * Len(MODEL_PREFERENCES)
  /\ Len(calls') <= Len(workflow') * Len(runImages')

\* C28: every editImage call starts at the first backend of the preference
\* list with attempt count 0, no recorded model failure and no retry,
\* whatever the earlier calls went through; the requests of one call, that
\* is of one step of one image, number at most 4 * |backends|, and a run
\* makes at most |steps| * |images| calls, hence at most
\* 4 * |backends| * |steps| * |images| requests.
C28_ScopedToOneCall == [][C28_Step]_vars

\* the second call of a run starts afresh after a first call that succeeded
\* only after a retry
C28_Witness ==
  /\ Len(calls) = 2
  /\ pc = "request"
  /\ requests = << 1 >>
  /\ modelIndex = 1
  /\ attempt = 0
  /\ notification = << "Retrying" >>
  /\ Len(logs) = logBase + 1

\* C29 (as claimed): provided every request settles and every sleep ends, a
\* run that entered Running eventually reaches one of the terminal outcomes
\* Completed, Cancelled and Failed.
C29_RunReachesTerminalOutcome == (outcome = "running") ~> (outcome \in Terminal)

\* two connections leave one step, or two connections enter one step
HasFan ==
  \E a, b, c \in StepIds :
     /\ b # c
     /\ \/ Edge(a, b) /\ Edge(a, c)
        \/ Edge(b, a) /\ Edge(c, a)

\* what step number st of the order receives for the image: the upload for
\* the first step, and after it the upload with the prompts of all steps
\* before st applied in the returned order
LinearInput(image, st) ==
  IF st = 1 THEN image.dataUrl
  ELSE DataUrl("image/png",
               << image.id >> \o [k \in 1..(st - 1) |-> PromptOf(workflow[k])])

\* C24: an acyclic graph with fan-out or fan-in is accepted by
\* getExecutionOrder, which returns every step once with every connection
\* pointing forward; the run calls editImage for the steps in exactly that
\* order, once per image, each step receiving the output of the step just
\* before it in the order, and a completed run has run every step on every
\* image.
C24_FanRunsLinear ==
  (Called /\ HasFan /\ ~HasCycle /\ EdgesJoinSteps) =>
     /\ outcome # "invalid"
     /\ IsPermutationOf(workflow, nodes)
     /\ \A a, b \in StepIds : Edge(a, b) => Pos(workflow, a) < Pos(workflow, b)
     /\ \A j \in 1..Len(calls) :
           /\ calls[j].image = PairImage(j)
           /\ calls[j].step = PairStep(j)
           /\ calls[j].node = workflow[PairStep(j)]
           /\ calls[j].input = LinearInput(runImages[PairImage(j)], PairStep(j))
     /\ outcome = "completed" =>
           /\ Len(calls) = Len(workflow) * Len(runImages)
           /\ \A i \in 1..Len(runImages) :
                 outputs[i] = OutputOf(runImages[i], FinalDataUrl(runImages[i]))

\* a completed run on a branching graph in which some step received the
\* output of a step it has no connection from
C24_Witness ==
  /\ HasFan
  /\ outcome = "completed"
  /\ Len(outputs) = Len(runImages)
  /\ \E j \in 2..Len(calls) :
        /\ PairStep(j) > 1
        /\ ~Edge(calls[j - 1].node, calls[j].node)
        /\ calls[j].input = LinearInput(runImages[PairImage(j)], PairStep(j))

\* C21: at most one call of executeWorkflow is active at any moment, so at
\* most one request is in flight and one image is in work: while a call is
\* suspended in an await the Execute button is disabled, no second call has
\* ever been started, and the requests, calls and abort controller of the
\* application are those of the single run in progress.
C21_OneRunAtATime ==
  /\ ~overlap
  /\ pc # "idle" =>
        /\ isLoading
        /\ ~ENABLED ExecuteClick
        /\ outcome = "running"
        /\ abortController = runs
        /\ imageIndex \in 1..Len(runImages)
        /\ Len(calls) = (imageIndex - 1) * Len(workflow) + stepIndex

\* a run is in the middle of its second call, waiting for a request, and
\* Execute cannot be invoked
C21_Witness ==
  /\ pc = "request"
  /\ Len(calls) = 2
  /\ Len(requests) >= 2
  /\ isLoading
  /\ ~ENABLED ExecuteClick
  /\ ~overlap

\* C23 (as claimed): while a run is Running, the output list and the
\* execution log change only by appends: no step clears, shrinks or
\* rewrites them.
C23_OnlyTheRunWrites ==
  [][outcome = "running" =>
        /\ Len(outputs') >= Len(outputs)
        /\ SubSeq(outputs', 1, Len(outputs)) = outputs
        /\ Len(logs') >= Len(logs)
        /\ SubSeq(logs', 1, Len(logs)) = logs]_vars

\* a connection leads from a step to that same step
HasSelfLoop == \E a \in StepIds : Edge(a, a)

IsSelfLoop(conn) == conn.fromNodeId = conn.toNodeId

C25_Step ==
  /\ \A i \in 1..Len(connections') :
        IsSelfLoop(connections'[i]) =>
           \E j \in 1..Len(connections) : connections[j] = connections'[i]
  /\ (ExecuteClick /\ HasSelfLoop) =>
        /\ outcome' = "invalid"
        /\ error' = ERR_CYCLE
        /\ pc' = "idle"
        /\ ~isLoading'
        /\ requests' = requests

\* C25: no operation of the editor adds a connection whose source and
\* target are the same step (handleEndConnection refuses it), so a
\* workflow built in the editor never contains one; and when Execute is
\* invoked on a graph that does contain one, getExecutionOrder rejects it and
\* nothing is executed.
C25_NoSelfLoopExecutes == [][C25_Step]_vars

\* Execute has been refused on a workflow with a stored self-loop, to which
\* the editor added a step; a connection dragged from that step is pending
C25_Witness ==
  /\ HasSelfLoop
  /\ outcome = "invalid"
  /\ error = ERR_CYCLE
  /\ Len(nodes) = 2
  /\ connecting \in StepIds
  /\ ~Edge(connecting, connecting)

\* C30 (as claimed): after any sequence of editor operations the source and
\* the target of every connection are steps currently in the graph.
C30_NoDanglingEdge ==
  \A i \in 1..Len(connections) :
     /\ connections[i].fromNodeId \in Range(nodes)
     /\ connections[i].toNodeId \in Range(nodes)


====
